---- MODULE Spec2Model ----
(***************************************************************************)
(* A model of the CareAgents backend: the PostgreSQL connection manager    *)
(* (database/postgresql/connection.py), the generic record repository      *)
(* (database/postgresql/repository.py) and the entity services built on    *)
(* it (services/*.py), and the agent services (agents/services/*.py).      *)
(*                                                                         *)
(* Every coroutine is cut at its await points: whatever runs between two   *)
(* awaits is one action, the event loop may interleave other tasks at an   *)
(* await.  A single SQL statement is atomic in the database.               *)
(***************************************************************************)
EXTENDS Integers, Sequences, FiniteSets, TLC

VARIABLES
  \* ---- connection manager (connection.py) ----
  pool,        \* PostgreSQLConnection._pool: 0 is None, n > 0 is the n-th pool
  opened,      \* pools asyncpg.create_pool has opened so far
  closed,      \* pools on which Pool.close() has completed
  tpc,         \* per task: where it stands inside get_pool() / close()
  got,         \* per task: the pool its last get_pool() returned (0: nothing)
  \* ---- record repository (repository.py) ----
  table,       \* the rows of the repository's table
  clock,       \* the value datetime.utcnow() returned last
  last,        \* the last repository call: operation, arguments, outcome
  \* ---- a client paging through a listing ----
  listing,     \* the listing being paged through and its page size
  pages,       \* the pages fetched so far, each the sequence of ids returned
  \* ---- onboarding (onboarding_service.py) ----
  users,       \* per user: the is_onboarded flag of the users row
  patients,    \* the rows of the patients table: patient_id and user_id
  doctors,     \* the rows of the doctors table: doctor_id and user_id
  onb,         \* per request handler: the onboarding call it is serving
  \* ---- appointments (appointment_service.py) ----
  appts,       \* the rows of the appointments table
  calls,       \* per caller: the service call it is making
  lastCommit,  \* the caller and appointment of the UPDATE that ran last
  \* ---- a caller following one record (repository.py) ----
  found,       \* the id last asked of find_by_id and what it returned
  again,       \* the last soft_delete repeated a soft_delete of the same id
  \* ---- one call of a function: what it was given, what it gave back ----
  args,
  result,
  \* ---- agent orchestrator (adk_agent_orchestrator.py) ----
  agent,       \* per kind: chat_agent / record_agent, 0 is None, n the n-th built
  built,       \* per kind: agents constructed so far
  ens          \* per caller: where it stands inside _ensure_<kind>_agent()

poolVars == <<pool, opened, closed, tpc, got>>
repoVars == <<table, clock, last>>
onbVars == <<users, patients, doctors, onb>>
apptVars == <<appts, calls, lastCommit>>
pageVars == <<listing, pages>>
recVars == <<found, again>>
callVars == <<args, result>>
agentVars == <<agent, built, ens>>

vars == <<pool, opened, closed, tpc, got, table, clock, last, listing, pages,
          users, patients, doctors, onb, appts, calls, lastCommit,
          found, again, args, result, agent, built, ens>>

----------------------------------------------------------------------------
(***************************************************************************)
(* Connection pool manager                                                 *)
(***************************************************************************)

NTasks == 2          \* concurrent tasks using the connection manager
MaxPools == 3        \* cap on the pools opened in one behaviour

Tasks == 1..NTasks
None == 0

\* (variant) get_pool that opens a pool whether or not one is present.
GetPoolAlwaysCreates(t) ==
  /\ tpc[t] = "idle"
  /\ tpc' = [tpc EXCEPT ![t] = "creating"]
  /\ got' = [got EXCEPT ![t] = None]
  /\ UNCHANGED <<pool, opened, closed>>

\* get_pool, line 50: `if self._pool is None` -- no lock is taken.  With a
\* pool present the method returns it at once; otherwise the task suspends
\* in `await self._create_pool()`.
GetPoolEnter(t) ==
  /\ tpc[t] = "idle"
  /\ IF pool = None
       THEN /\ tpc' = [tpc EXCEPT ![t] = "creating"]
            /\ got' = [got EXCEPT ![t] = None]
       ELSE /\ tpc' = [tpc EXCEPT ![t] = "returned"]
            /\ got' = [got EXCEPT ![t] = pool]
  /\ UNCHANGED <<pool, opened, closed>>

\* _create_pool succeeded: asyncpg.create_pool opened a new pool; the task
\* resumes, assigns self._pool (line 51) and returns self._pool (line 52)
\* without suspending again.
CreatePoolOk(t) ==
  /\ tpc[t] = "creating"
  /\ Cardinality(opened) < MaxPools
  /\ LET p == Cardinality(opened) + 1 IN
       /\ opened' = opened \cup {p}
       /\ pool' = p
       /\ got' = [got EXCEPT ![t] = p]
  /\ tpc' = [tpc EXCEPT ![t] = "returned"]
  /\ UNCHANGED closed

\* _create_pool failed: lines 73-74 raise ConnectionError, the assignment of
\* line 51 never happens.
CreatePoolFail(t) ==
  /\ tpc[t] = "creating"
  /\ tpc' = [tpc EXCEPT ![t] = "raised"]
  /\ UNCHANGED <<pool, opened, closed, got>>

\* close, line 78: nothing to do without a pool; otherwise the task suspends
\* in `await self._pool.close()`.
CloseEnter(t) ==
  /\ tpc[t] = "idle"
  /\ IF pool = None
       THEN tpc' = [tpc EXCEPT ![t] = "closed"]
       ELSE tpc' = [tpc EXCEPT ![t] = "closing"]
  /\ got' = [got EXCEPT ![t] = pool]
  /\ UNCHANGED <<pool, opened, closed>>

\* (variant) close that closes the pool and keeps the reference to it.
CloseDoneKeepsPool(t) ==
  /\ tpc[t] = "closing"
  /\ closed' = closed \cup {got[t]}
  /\ tpc' = [tpc EXCEPT ![t] = "closed"]
  /\ got' = [got EXCEPT ![t] = None]
  /\ UNCHANGED <<pool, opened>>

\* close, lines 79-80: the pool the task awaited on is closed, then
\* self._pool is reset whatever it holds by now.
CloseDone(t) ==
  /\ tpc[t] = "closing"
  /\ closed' = closed \cup {got[t]}
  /\ pool' = None
  /\ tpc' = [tpc EXCEPT ![t] = "closed"]
  /\ got' = [got EXCEPT ![t] = None]
  /\ UNCHANGED opened

\* The caller of get_pool()/close() goes on and may call again later.
TaskReset(t) ==
  /\ tpc[t] \in {"returned", "raised", "closed"}
  /\ tpc' = [tpc EXCEPT ![t] = "idle"]
  /\ got' = [got EXCEPT ![t] = None]
  /\ UNCHANGED <<pool, opened, closed>>

----------------------------------------------------------------------------
(***************************************************************************)
(* Record repository                                                       *)
(*                                                                         *)
(* A row maps every column of the table to a value; a caller's payload is  *)
(* a Python dict, i.e. an ORDERED mapping: a sequence of <<column, value>> *)
(* pairs with distinct columns.  Column values are coded as small          *)
(* integers, is_active as 0 / 1, SQL NULL as -1.                           *)
(***************************************************************************)

MaxId == 2           \* identifiers callers draw from
MaxBatch == 2        \* longest insert_many batch
RepoClock == 0       \* last instant of the clock where time is not the subject
MaxClock == 1        \* last instant the clock reaches where stamps are compared

Ids == 1..MaxId
Vals == 0..1
Null == 0 - 1
Cols == {"id", "first_name", "last_name", "is_active", "created_at", "updated_at"}
DataCols == {"first_name", "last_name", "is_active"}

Keys(d) == [i \in 1..Len(d) |-> d[i][1]]
Values(d) == [i \in 1..Len(d) |-> d[i][2]]
KeySet(d) == {d[i][1] : i \in 1..Len(d)}

\* d[k] = v on a dict: an existing key keeps its position, a new one is
\* appended.
DictSet(d, k, v) ==
  IF k \in KeySet(d)
    THEN [i \in 1..Len(d) |-> IF d[i][1] = k THEN <<k, v>> ELSE d[i]]
    ELSE Append(d, <<k, v>>)

\* datetime.utcnow() read n times in a row: the clock never runs backwards,
\* and two reads may or may not fall into the same instant.
\* maxT is the last instant the behaviour reaches.
Stamps(n, maxT) ==
  {s \in [1..n -> clock..maxT] : \A i \in 1..(n - 1) : s[i] <= s[i + 1]}

\* What the table's schema fills in for a column the INSERT does not name.
ColumnDefault(c) == IF c = "is_active" THEN 1 ELSE Null

\* The table's key constraint: the id column is NOT NULL and unique.
ViolatesKey(tbl, row) ==
  \/ row["id"] = Null
  \/ \E r \in tbl : r["id"] = row["id"]

\* INSERT INTO t (columns) VALUES ($1..$n) RETURNING * with the given bind
\* values: placeholder i receives values[i] and lands in columns[i].
InsertStmt(tbl, columns, values) ==
  IF Len(values) # Len(columns)
    THEN [ok |-> FALSE, table |-> tbl]
    ELSE LET row == [c \in Cols |->
                       IF \E i \in 1..Len(columns) : columns[i] = c
                         THEN values[CHOOSE i \in 1..Len(columns) : columns[i] = c]
                         ELSE ColumnDefault(c)]
         IN IF ViolatesKey(tbl, row)
              THEN [ok |-> FALSE, table |-> tbl]
              ELSE [ok |-> TRUE, table |-> tbl \cup {row}]

\* insert, lines 68-90: stamp the payload, build the statement from the
\* payload's own keys and values.
Insert(tbl, data, s) ==
  LET d == DictSet(DictSet(data, "created_at", s[1]), "updated_at", s[2])
  IN InsertStmt(tbl, Keys(d), Values(d))

\* insert_many, lines 106-108: every record is stamped before anything is
\* sent to the database.
StampAll(records, s) ==
  [i \in 1..Len(records) |->
     DictSet(DictSet(records[i], "created_at", s[2 * i - 1]), "updated_at", s[2 * i])]

\* insert_many, lines 123-132: the loop over the records, inside the
\* transaction.  The statement's columns are those of the first record, the
\* bind values are each record's own values in that record's own order.
\* failedAt is the index of the record whose INSERT raised (0: none).
RECURSIVE InsertLoop(_, _, _, _)
InsertLoop(tbl, columns, records, i) ==
  IF i > Len(records)
    THEN [failedAt |-> 0, table |-> tbl]
    ELSE LET r == InsertStmt(tbl, columns, Values(records[i]))
         IN IF r.ok
              THEN InsertLoop(r.table, columns, records, i + 1)
              ELSE [failedAt |-> i, table |-> tbl]

\* (variant) the loop without the enclosing transaction: the rows inserted
\* before the failing one stay.
InsertManyNoTransaction(tbl, records, s) ==
  LET stamped == StampAll(records, s)
      r == InsertLoop(tbl, Keys(stamped[1]), stamped, 1)
  IN [raised |-> r.failedAt # 0, failedAt |-> r.failedAt, table |-> r.table]

\* insert_many, lines 121-134: `async with connection.transaction()` commits
\* when the loop ends and rolls back when an INSERT raises, the exception
\* then propagates to the caller.
InsertMany(tbl, records, s) ==
  LET stamped == StampAll(records, s)
      r == InsertLoop(tbl, Keys(stamped[1]), stamped, 1)
  IN IF r.failedAt = 0
       THEN [raised |-> FALSE, failedAt |-> 0, table |-> r.table]
       ELSE [raised |-> TRUE, failedAt |-> r.failedAt, table |-> tbl]

\* The first decimal digit of n.
RECURSIVE LeadingDigit(_)
LeadingDigit(n) == IF n < 10 THEN n ELSE LeadingDigit(n \div 10)

\* (variant) `"UPDATE" in result`: any command tag counts as success.
TagHasUpdate(n) == n >= 0

\* update, line 242: `"UPDATE 1" in result`, where result is the command
\* tag "UPDATE n" of a statement that affected n rows: a substring test,
\* true exactly when the decimal numeral of n starts with the digit 1.
TagHasUpdate1(n) == LeadingDigit(n) = 1

\* delete, line 257: `"DELETE 1" in result`.
TagHasDelete1(n) == LeadingDigit(n) = 1

\* (variant) every column the statement does not name falls back to its
\* default, as if the row were replaced.
SetColumnsReplace(row, d) ==
  [c \in DOMAIN row |->
     IF c \in KeySet(d)
       THEN d[CHOOSE i \in 1..Len(d) : d[i][1] = c][2]
       ELSE IF c \in {"id", "created_at"} THEN row[c] ELSE ColumnDefault(c)]

\* The row after UPDATE t SET k1 = v1, ... : the named columns are
\* overwritten, every other column keeps its value.
SetColumns(row, d) ==
  [c \in DOMAIN row |->
     IF c \in KeySet(d)
       THEN d[CHOOSE i \in 1..Len(d) : d[i][1] = c][2]
       ELSE row[c]]

\* (variant) the statement is built from the payload as given, updated_at is
\* not refreshed.
UpdateKeepsStamp(tbl, id_field, id_value, data, now) ==
  IF data = <<>>
    THEN [ret |-> FALSE, table |-> tbl]
    ELSE LET matched == {r \in tbl : r[id_field] = id_value}
         IN [ret |-> TagHasUpdate1(Cardinality(matched)),
             table |-> (tbl \ matched) \cup {SetColumns(r, data) : r \in matched}]

\* update, lines 215-242.  An empty payload returns False before the clock
\* is read or any statement is issued.
Update(tbl, id_field, id_value, data, now) ==
  IF data = <<>>
    THEN [ret |-> FALSE, table |-> tbl]
    ELSE LET d == DictSet(data, "updated_at", now)
             matched == {r \in tbl : r[id_field] = id_value}
         IN [ret |-> TagHasUpdate1(Cardinality(matched)),
             table |-> (tbl \ matched) \cup {SetColumns(r, d) : r \in matched}]

\* delete, lines 255-257.
Delete(tbl, id_field, id_value) ==
  LET matched == {r \in tbl : r[id_field] = id_value}
  IN [ret |-> TagHasDelete1(Cardinality(matched)), table |-> tbl \ matched]

\* ---- the payloads callers pass ----

\* The services build an insert payload from the model's fields, then add
\* the generated id and is_active = True; optional fields that are None are
\* left out (model_dump(exclude_none=True)).
PayloadsOver(keyOrders, names) ==
  UNION { { [i \in 1..Len(ks) |-> <<ks[i], v[i]>>] :
              v \in { w \in [1..Len(ks) -> Ids \cup Vals] :
                        \A i \in 1..Len(ks) :
                          /\ ks[i] = "id" => w[i] \in Ids
                          /\ ks[i] = "is_active" => w[i] = 1
                          /\ ks[i] = "first_name" => w[i] \in names
                          /\ ks[i] = "last_name" => w[i] = 1 } }
          : ks \in keyOrders }

InsertPayloads == PayloadsOver({ <<"first_name", "id", "is_active">> }, Vals)

\* An update payload names any subset of the data columns (the update
\* models carry no id, created_at or updated_at field).
UpdateKeyOrders ==
  { <<>>, <<"first_name">>, <<"is_active">>, <<"first_name", "is_active">> }

UpdatePayloads ==
  UNION { { [i \in 1..Len(ks) |-> <<ks[i], v[i]>>] : v \in [1..Len(ks) -> Vals] }
          : ks \in UpdateKeyOrders }

\* The records of a batch: the same fields given in either order, or with
\* the optional last_name left out.
BatchPayloads ==
  PayloadsOver({ <<"first_name", "last_name", "id", "is_active">>,
                 <<"last_name", "first_name", "id", "is_active">>,
                 <<"first_name", "id", "is_active">> }, {0})

Batches == UNION { [1..n -> BatchPayloads] : n \in 1..MaxBatch }

\* The table after insert() was called, at instant 0, once for each id in
\* the domain of f, with first_name f[id].
RECURSIVE Seeded(_)
Seeded(f) ==
  IF DOMAIN f = {}
    THEN {}
    ELSE LET i == CHOOSE j \in DOMAIN f : \A k \in DOMAIN f : j >= k
             rest == [k \in DOMAIN f \ {i} |-> f[k]]
         IN Insert(Seeded(rest),
                   << <<"first_name", f[i]>>, <<"last_name", 1>>, <<"id", i>>, <<"is_active", 1>> >>,
                   <<0, 0>>).table

NoCall == [op |-> "none", id |-> 0, cols |-> {}, ret |-> FALSE, raised |-> FALSE,
           n |-> 0, failedAt |-> 0]

\* ---- the repository's operations ----

\* The id a payload carries (0: none).
IdOf(data) ==
  IF "id" \in KeySet(data) THEN data[CHOOSE i \in 1..Len(data) : data[i][1] = "id"][2] ELSE 0

RepoInsert(data, maxT) ==
  \E s \in Stamps(2, maxT) :
    LET r == Insert(table, data, s) IN
      /\ table' = r.table
      /\ clock' = s[2]
      /\ last' = [NoCall EXCEPT !.op = "insert", !.id = IdOf(data),
                                !.cols = KeySet(data), !.raised = ~r.ok, !.n = 1]

RepoInsertMany(records, maxT) ==
  \E s \in Stamps(2 * Len(records), maxT) :
    LET r == InsertMany(table, records, s) IN
      /\ table' = r.table
      /\ clock' = s[2 * Len(records)]
      /\ last' = [NoCall EXCEPT !.op = "insert_many", !.raised = r.raised,
                                !.n = Len(records), !.failedAt = r.failedAt]

RepoUpdate(id_value, data, maxT) ==
  \E s \in Stamps(1, maxT) :
    LET r == Update(table, "id", id_value, data, s[1]) IN
      /\ table' = r.table
      /\ clock' = IF data = <<>> THEN clock ELSE s[1]
      /\ last' = [NoCall EXCEPT !.op = "update", !.id = id_value,
                                !.cols = KeySet(data), !.ret = r.ret]

\* (variant) soft_delete flips is_active instead of clearing it.
RepoSoftDeleteToggle(id_value, maxT) ==
  \E s \in Stamps(1, maxT) :
    LET flipped == IF \E r \in table : r["id"] = id_value /\ r["is_active"] = 0
                     THEN 1 ELSE 0
        r == Update(table, "id", id_value, << <<"is_active", flipped>> >>, s[1]) IN
      /\ table' = r.table
      /\ clock' = s[1]
      /\ last' = [NoCall EXCEPT !.op = "soft_delete", !.id = id_value,
                                !.cols = {"is_active"}, !.ret = r.ret]

\* soft_delete, line 270.
RepoSoftDelete(id_value, maxT) ==
  \E s \in Stamps(1, maxT) :
    LET r == Update(table, "id", id_value, << <<"is_active", 0>> >>, s[1]) IN
      /\ table' = r.table
      /\ clock' = s[1]
      /\ last' = [NoCall EXCEPT !.op = "soft_delete", !.id = id_value,
                                !.cols = {"is_active"}, !.ret = r.ret]

RepoDelete(id_value) ==
  LET r == Delete(table, "id", id_value) IN
    /\ table' = r.table
    /\ last' = [NoCall EXCEPT !.op = "delete", !.id = id_value, !.ret = r.ret]
    /\ UNCHANGED clock

\* ---- one operation and the fate of its database command ----

\* (variant) a failed command is issued a second time before giving up.
CommandRetried(op, data, outcome) ==
  IF op = "update" /\ data = <<>>
    THEN [attempts |-> 0, raised |-> "", ret |-> FALSE]
  ELSE IF outcome.acquire # ""
    THEN [attempts |-> 0, raised |-> outcome.acquire, ret |-> FALSE]
  ELSE IF outcome.command # ""
    THEN [attempts |-> 2, raised |-> outcome.command, ret |-> FALSE]
  ELSE [attempts |-> 1, raised |-> "",
        ret |-> IF op \in {"update", "soft_delete"} THEN TagHasUpdate1(outcome.rows)
                ELSE IF op = "delete" THEN TagHasDelete1(outcome.rows)
                ELSE TRUE]

\* insert (lines 88-90), update (215-242), soft_delete (270), delete
\* (255-257) and count (282-297), each through `async with
\* self.pool.acquire()` and one fetch/execute (lines 40-41, 55-56, 88-89);
\* no statement of the class catches an exception.  outcome is what the
\* database does: the exception acquire() raises, the exception the command
\* raises ("" for none), the rows the command affects otherwise.  ret is
\* whether the value returned is truthy.
Command(op, data, outcome) ==
  IF op = "update" /\ data = <<>>
    THEN [attempts |-> 0, raised |-> "", ret |-> FALSE]
  ELSE IF outcome.acquire # ""
    THEN [attempts |-> 0, raised |-> outcome.acquire, ret |-> FALSE]
  ELSE IF outcome.command # ""
    THEN [attempts |-> 1, raised |-> outcome.command, ret |-> FALSE]
  ELSE [attempts |-> 1, raised |-> "",
        ret |-> IF op \in {"update", "soft_delete"} THEN TagHasUpdate1(outcome.rows)
                ELSE IF op = "delete" THEN TagHasDelete1(outcome.rows)
                ELSE TRUE]

CommandCall ==
  /\ args = <<>>
  /\ \E op \in {"insert", "update", "soft_delete", "delete", "count"},
        data \in UpdatePayloads,
        outcome \in [acquire : {"", "TimeoutError"},
                     command : {"", "TimeoutError", "ConnectionDoesNotExistError",
                                "UniqueViolationError"},
                     rows : 0..MaxId] :
       /\ args' = [call |-> "command", op |-> op, data |-> data, outcome |-> outcome]
       /\ result' = Command(op, data, outcome)

\* ---- a batch stored by insert_many, and by insert record after record ----

\* insert(records[i]), insert(records[i + 1]), ... awaited in turn on tbl,
\* every call at the instant 0.  failedAt is the index of the record whose
\* insert raised (0: none); the rows inserted before it stay.
RECURSIVE InsertEach(_, _, _)
InsertEach(tbl, records, i) ==
  IF i > Len(records)
    THEN [failedAt |-> 0, table |-> tbl]
    ELSE LET r == Insert(tbl, records[i], <<0, 0>>)
         IN IF r.ok
              THEN InsertEach(r.table, records, i + 1)
              ELSE [failedAt |-> i, table |-> tbl]

\* insert_many(records) on a table, all stamps read at the instant 0, next
\* to what the inserts one by one make of the same table.
InsertManyCall ==
  /\ args = <<>>
  /\ \E S \in SUBSET Ids : \E f \in [S -> Vals] : \E records \in Batches :
       /\ args' = [call |-> "insert_many", table |-> Seeded(f), records |-> records]
       /\ result' = [many |-> InsertMany(Seeded(f), records, [i \in 1..(2 * Len(records)) |-> 0]),
                     each |-> InsertEach(Seeded(f), records, 1)]

\* ---- the repository's queries ----

MaxPageSize == 2     \* largest page size a client asks for

Min(a, b) == IF a <= b THEN a ELSE b

\* The sequences that list every row of S once.
Enumerations(S) ==
  {f \in [1..Cardinality(S) -> S] : \A i, j \in 1..Cardinality(S) : i # j => f[i] # f[j]}

\* LIMIT limit OFFSET offset applied to a result sequence.
Window(seq, offset, limit) ==
  IF offset >= Len(seq) THEN <<>> ELSE SubSeq(seq, offset + 1, Min(offset + limit, Len(seq)))

\* ORDER BY created_at DESC: the rows newest first.  SQL leaves the order of
\* rows with equal created_at open, and leaves it open anew for every
\* statement.
OrderedByCreatedDesc(tbl) ==
  {f \in Enumerations(tbl) :
     \A i, j \in 1..Len(f) : i < j => f[i]["created_at"] >= f[j]["created_at"]}

\* find_all, lines 164-170: the results the statement may produce.
FindAll(tbl, limit, offset) ==
  {Window(f, offset, limit) : f \in OrderedByCreatedDesc(tbl)}

\* SQL's = : a NULL on either side makes the comparison fail.
SqlEquals(a, b) == a # Null /\ b # Null /\ a = b

\* (variant) the clauses joined with OR.
MatchesAny(row, filters) ==
  \E i \in 1..Len(filters) : SqlEquals(row[filters[i][1]], filters[i][2])

\* WHERE f1 = $1 AND f2 = $2 ...
Matches(row, filters) ==
  \A i \in 1..Len(filters) : SqlEquals(row[filters[i][1]], filters[i][2])

\* find_by_filter, lines 183-201: without filters it is find_all(limit);
\* with filters the statement has a WHERE and a LIMIT but no ORDER BY and no
\* OFFSET, the rows come in whatever order the scan yields.
FindByFilter(tbl, filters, limit) ==
  IF filters = <<>>
    THEN FindAll(tbl, limit, 0)
    ELSE {Window(f, 0, limit) : f \in Enumerations({r \in tbl : Matches(r, filters)})}

\* count, lines 282-297.
Count(tbl, filters) == Cardinality({r \in tbl : Matches(r, filters)})

ActiveOnly == << <<"is_active", 1>> >>

\* list_patients, patient_service.py lines 202-219: the responses the call
\* may produce.  offset is computed but only the active_only = False branch
\* passes it on.
ListPatients(tbl, page, page_size, active_only) ==
  LET offset == (page - 1) * page_size
      results == IF active_only
                   THEN FindByFilter(tbl, ActiveOnly, page_size)
                   ELSE FindAll(tbl, page_size, offset)
      total == IF active_only THEN Count(tbl, ActiveOnly) ELSE Count(tbl, <<>>)
  IN {[patients |-> ps, total |-> total, page |-> page, page_size |-> page_size,
       total_pages |-> (total + page_size - 1) \div page_size] : ps \in results}

IdsOf(rows) == [i \in 1..Len(rows) |-> rows[i]["id"]]

\* A client fills the table; once it has started to page through a listing
\* nothing writes any more.
PageLoad ==
  /\ listing.op = "none"
  /\ \/ \E data \in InsertPayloads : RepoInsert(data, MaxClock)
     \/ \E i \in Ids : RepoSoftDelete(i, MaxClock)
  /\ UNCHANGED pageVars

\* The client asks list_patients for the next page, pages 1..ceil(N/P) with
\* N the number of active patients.
ListPatientsPage(page_size) ==
  /\ listing \in {[op |-> "none", size |-> 0], [op |-> "list_patients", size |-> page_size]}
  /\ \E res \in ListPatients(table, Len(pages) + 1, page_size, TRUE) :
       /\ Len(pages) + 1 <= res.total_pages
       /\ pages' = Append(pages, IdsOf(res.patients))
  /\ listing' = [op |-> "list_patients", size |-> page_size]
  /\ UNCHANGED repoVars

\* The client asks find_all for the next window, offsets 0, L, 2L, ...
FindAllPage(limit) ==
  /\ listing \in {[op |-> "none", size |-> 0], [op |-> "find_all", size |-> limit]}
  /\ Len(pages) * limit < Count(table, <<>>)
  /\ \E rows \in FindAll(table, limit, Len(pages) * limit) :
       pages' = Append(pages, IdsOf(rows))
  /\ listing' = [op |-> "find_all", size |-> limit]
  /\ UNCHANGED repoVars

\* ---- one record followed through its life ----

MaxRecords == 1      \* records the caller follows

RecIds == 1..MaxRecords

\* (variant) find_by_id that looks among the active rows only.
FindActiveById(tbl, id_field, id_value) ==
  LET matched == {r \in tbl : r[id_field] = id_value /\ r["is_active"] = 1}
  IN IF matched = {} THEN {<<>>} ELSE {<<r>> : r \in matched}

\* find_by_id, lines 147-151: SELECT * ... WHERE id_field = $1 LIMIT 1; the
\* results the statement may produce, <<>> standing for None.  Whether the
\* row is active plays no part.
FindById(tbl, id_field, id_value) ==
  LET matched == {r \in tbl : r[id_field] = id_value}
  IN IF matched = {} THEN {<<>>} ELSE {<<r>> : r \in matched}

RecordPayload(i) == << <<"first_name", 0>>, <<"id", i>>, <<"is_active", 1>> >>

\* The updates the caller makes: none of them names created_at or updated_at.
RecordUpdates == {<<>>} \cup { << <<"first_name", v>> >> : v \in Vals }

NoRead == [id |-> 0, rows |-> <<>>]

RecInsert(i) ==
  /\ RepoInsert(RecordPayload(i), MaxClock)
  /\ found' = NoRead
  /\ again' = FALSE

RecUpdate(i, data) ==
  /\ RepoUpdate(i, data, MaxClock)
  /\ found' = NoRead
  /\ again' = FALSE

RecSoftDelete(i) ==
  /\ RepoSoftDelete(i, MaxClock)
  /\ found' = NoRead
  /\ again' = (last.op = "soft_delete" /\ last.id = i /\ last.ret)

RecDelete(i) ==
  /\ RepoDelete(i)
  /\ found' = NoRead
  /\ again' = FALSE

RecFindById(i) ==
  /\ \E res \in FindById(table, "id", i) : found' = [id |-> i, rows |-> res]
  /\ UNCHANGED <<repoVars, again>>

\* ---- one filtered lookup and its count ----

\* The tables looked into: a row per id of the domain of f, with the
\* first_name (possibly NULL) and is_active that f gives it.
FilterTables ==
  { { [c \in Cols |->
         IF c = "id" THEN i
         ELSE IF c = "first_name" THEN f[i][1]
         ELSE IF c = "is_active" THEN f[i][2]
         ELSE IF c = "last_name" THEN Null
         ELSE i] : i \in DOMAIN f }
    : f \in UNION { [S -> (Vals \cup {Null}) \X Vals] : S \in SUBSET Ids } }

\* The filter mappings callers pass: any of the two columns, any value.
FilterMaps ==
  {<<>>}
    \cup { << <<"first_name", v>> >> : v \in Vals \cup {Null} }
    \cup { << <<"is_active", w>> >> : w \in Vals }
    \cup { << <<"first_name", v>>, <<"is_active", w>> >> : v \in Vals \cup {Null}, w \in Vals }

\* find_by_filter(filters, limit) and count(filters) on the same table, as
\* list_patients issues them (patient_service.py lines 205-206).
FilterCall ==
  /\ args = <<>>
  /\ \E tbl \in FilterTables, filters \in FilterMaps, limit \in 1..MaxPageSize :
       /\ args' = [call |-> "find_by_filter", table |-> tbl, filters |-> filters, limit |-> limit]
       /\ \E rows \in FindByFilter(tbl, filters, limit) :
            result' = [rows |-> rows, count |-> Count(tbl, filters)]

----------------------------------------------------------------------------
(***************************************************************************)
(* Text search (repository.py, search)                                     *)
(***************************************************************************)

MaxTermLen == 2      \* longest search term

\* Text is a sequence of characters.
Chars == {"a", "A", "b", "_", "%"}
Strings(n) == UNION { [1..k -> Chars] : k \in 0..n }

\* str.lower() in Python, LOWER() in SQL.
Lower(str) == [i \in 1..Len(str) |-> IF str[i] = "A" THEN "a" ELSE str[i]]

\* text LIKE pattern: % stands for any run of characters, _ for any one
\* character, every other character for itself.
RECURSIVE Like(_, _)
Like(text, pattern) ==
  IF pattern = <<>> THEN text = <<>>
  ELSE IF Head(pattern) = "%"
    THEN \E k \in 0..Len(text) : Like(SubSeq(text, k + 1, Len(text)), Tail(pattern))
  ELSE IF text = <<>> THEN FALSE
  ELSE /\ (Head(pattern) = "_" \/ Head(pattern) = Head(text))
       /\ Like(Tail(text), Tail(pattern))

\* term occurs in text as a contiguous run of characters.
Contains(text, term) ==
  \E k \in 0..(Len(text) - Len(term)) : SubSeq(text, k + 1, k + Len(term)) = term

\* search, lines 324-344: nothing is looked up without fields or without a
\* term; otherwise the rows where LOWER(field) LIKE '%' || term.lower() || '%'
\* holds for one of the fields, newest first, cut at limit.  The results the
\* statement may produce.
Search(tbl, search_fields, search_term, limit) ==
  IF search_fields = <<>> \/ search_term = <<>>
    THEN {<<>>}
    ELSE LET pattern == <<"%">> \o Lower(search_term) \o <<"%">>
             hits == {r \in tbl : \E i \in 1..Len(search_fields) :
                        Like(Lower(r[search_fields[i]]), pattern)}
         IN {Window(f, 0, limit) : f \in OrderedByCreatedDesc(hits)}

\* The tables searched: a record per id of S, named as f says.
NamedTable(f) ==
  { [c \in {"id", "first_name", "last_name", "created_at"} |->
       IF c = "id" THEN i
       ELSE IF c = "first_name" THEN f[i]
       ELSE IF c = "last_name" THEN <<"b">>
       ELSE i] : i \in DOMAIN f }

\* search(fields, term, limit) on a table of named records.
SearchCall ==
  /\ args = <<>>
  /\ \E S \in SUBSET Ids : \E f \in [S -> { <<"a">>, <<"A", "b">>, <<"b">>, <<"a", "_">> }] :
     \E fields \in { <<>>, <<"first_name">>, <<"first_name", "last_name">> }, term \in Strings(MaxTermLen), limit \in 1..MaxPageSize :
       /\ args' = [call |-> "search", table |-> NamedTable(f), fields |-> fields, term |-> term,
                   limit |-> limit]
       /\ result' \in Search(NamedTable(f), fields, term, limit)

----------------------------------------------------------------------------
(***************************************************************************)
(* JSON-valued columns (repository.py, connection.py)                      *)
(***************************************************************************)

MaxItems == 3        \* longest list and largest object stored

\* A value is tagged with its Python type.  A list carries its elements, a
\* dict its keys and values in turn, a str its text, cut into the pieces
\* json.dumps emits.  The elements are JSON scalars, written as their text.
JsonValues ==
  LET Scalars == {"1", "true", "\"a\""}
      ObjectKeys == <<"\"k\"", "\"l\"", "\"m\"", "\"n\"">>
      Items == UNION { [1..n -> Scalars] : n \in 0..MaxItems }
  IN { [type |-> "list", items |-> xs] : xs \in Items }
       \cup { [type |-> "dict",
               items |-> [i \in 1..(2 * Len(xs)) |->
                            IF i % 2 = 1 THEN ObjectKeys[(i + 1) \div 2] ELSE xs[i \div 2]]]
              : xs \in Items }

\* The text between the brackets: elements separated by ", ", a key and its
\* value by ": ".
RECURSIVE JoinItems(_, _, _)
JoinItems(items, i, paired) ==
  IF i > Len(items) THEN <<>>
  ELSE LET sep == IF i = 1 THEN <<>>
                  ELSE IF paired /\ i % 2 = 0 THEN <<": ">> ELSE <<", ">>
       IN sep \o <<items[i]>> \o JoinItems(items, i + 1, paired)

\* json.dumps(value).
JsonDumps(v) ==
  [type |-> "str",
   items |-> IF v.type = "list"
               THEN <<"[">> \o JoinItems(v.items, 1, FALSE) \o <<"]">>
               ELSE <<"{">> \o JoinItems(v.items, 1, TRUE) \o <<"}">>]

\* insert lines 77-80, update lines 227-229: a dict or list is replaced by
\* its JSON text before it is bound to the statement.
Bind(v) == IF v.type \in {"dict", "list"} THEN JsonDumps(v) ELSE v

\* What a fetched row holds for the column.  The pool is created without an
\* init callback (connection.py lines 62-71), so no connection has a codec
\* for json/jsonb: the driver hands the column's text over as a str.
Fetched(stored) == stored

\* insert(data) or update(id, data) with a JSON-shaped field, then
\* find_by_id: what was passed in and what came back for the field.
JsonStoreAndFind ==
  /\ args = <<>>
  /\ \E op \in {"insert", "update"}, v \in JsonValues :
       /\ args' = [call |-> "find_by_id", op |-> op, value |-> v]
       /\ result' = Fetched(Bind(v))

----------------------------------------------------------------------------
(***************************************************************************)
(* A patient's age (services/patient_service.py)                           *)
(***************************************************************************)

\* datetime.date values: the calendar dates among some years, months and
\* days; 29 February exists in leap years only.
Dates ==
  { dt \in [year : {2000, 2001, 2023, 2024}, month : {2, 6, 7}, day : {14, 15, 28, 29}] :
      (dt.month = 2 /\ dt.day = 29) =>
        (dt.year % 4 = 0 /\ (dt.year % 100 # 0 \/ dt.year % 400 = 0)) }

\* (variant) the year difference alone.
CreatePatientAgeByYear(dob, today) == today.year - dob.year

\* create_patient, lines 65-71, with today = date.today().
CreatePatientAge(dob, today) ==
  LET age == today.year - dob.year
  IN IF today.month < dob.month \/ (today.month = dob.month /\ today.day < dob.day)
       THEN age - 1 ELSE age

\* update_patient, lines 146-153, when date_of_birth is in the update.
UpdatePatientAge(dob, today) ==
  LET age == today.year - dob.year
  IN IF today.month < dob.month \/ (today.month = dob.month /\ today.day < dob.day)
       THEN age - 1 ELSE age

\* create_patient(date_of_birth = dob), or update_patient with
\* date_of_birth = dob, on the day today: the age put into the payload.
AgeCall ==
  /\ args = <<>>
  /\ \E op \in {"create_patient", "update_patient"}, dob \in Dates, today \in Dates :
       /\ args' = [call |-> "age", op |-> op, dob |-> dob, today |-> today]
       /\ result' = IF op = "create_patient"
                      THEN CreatePatientAge(dob, today)
                      ELSE UpdatePatientAge(dob, today)

----------------------------------------------------------------------------
(***************************************************************************)
(* Onboarding (services/onboarding_service.py, routes/onboarding.py)       *)
(***************************************************************************)

MaxUsers == 2        \* users with an account
MaxProfiles == 3     \* rows the profile tables hold at most

UserIds == 1..MaxUsers
Handlers == {"h1", "h2"}

\* The coroutines UserService defines, user_service.py lines 31-123.
UserServiceMethods ==
  {"create_user", "get_user_by_firebase_uid", "get_user_by_email", "get_user_by_id",
   "update_user", "update_last_login", "set_user_onboarded"}

\* The parameters the create_* methods of the profile services accept.
CreatePatientParams == {"patient_data", "user_id"}
CreateDoctorParams == {"doctor_data"}

NoOnboarding == [pc |-> "idle", kind |-> "none", user |-> 0,
                 created |-> FALSE, flagged |-> FALSE, status |-> 0]

\* uuid.uuid4(): an id no row carries yet.
NewProfileId == Cardinality(patients) + Cardinality(doctors) + 1

\* onboard_patient, lines 70-90: the handler builds the PatientCreate and
\* awaits create_patient(patient_data, user_id = user_id), which inserts the
\* patients row (patient_service.py lines 56-98).  Nothing looks for a
\* profile the user may already have.
OnboardPatient(h, u) ==
  /\ onb[h].pc \in {"idle", "done"}
  /\ NewProfileId <= MaxProfiles
  /\ IF {"patient_data", "user_id"} \subseteq CreatePatientParams
       THEN /\ patients' = patients \cup {[patient_id |-> NewProfileId, user_id |-> u]}
            /\ onb' = [onb EXCEPT ![h] = [pc |-> "mark", kind |-> "patient", user |-> u,
                                          created |-> TRUE, flagged |-> FALSE, status |-> 0]]
       ELSE /\ patients' = patients
            /\ onb' = [onb EXCEPT ![h] = [pc |-> "done", kind |-> "patient", user |-> u,
                                          created |-> FALSE, flagged |-> FALSE, status |-> 500]]
  /\ UNCHANGED <<users, doctors>>

\* onboard_doctor, lines 130-144: the handler builds the DoctorCreate and
\* calls create_doctor(doctor_data, user_id = user_id).  A keyword the method
\* does not accept raises TypeError at the call, before any INSERT; the
\* route turns every exception into a 500 (routes/onboarding.py lines 135-139).
OnboardDoctor(h, u) ==
  /\ onb[h].pc \in {"idle", "done"}
  /\ NewProfileId <= MaxProfiles
  /\ IF {"doctor_data", "user_id"} \subseteq CreateDoctorParams
       THEN /\ doctors' = doctors \cup {[doctor_id |-> NewProfileId, user_id |-> u]}
            /\ onb' = [onb EXCEPT ![h] = [pc |-> "mark", kind |-> "doctor", user |-> u,
                                          created |-> TRUE, flagged |-> FALSE, status |-> 0]]
       ELSE /\ doctors' = doctors
            /\ onb' = [onb EXCEPT ![h] = [pc |-> "done", kind |-> "doctor", user |-> u,
                                          created |-> FALSE, flagged |-> FALSE, status |-> 500]]
  /\ UNCHANGED <<users, patients>>

\* onboard_patient line 93, onboard_doctor line 147:
\* await self.user_service.mark_as_onboarded(user_id).  Looking up a method
\* UserService does not define raises AttributeError; the route answers 500
\* (routes/onboarding.py lines 96-100), the row inserted before stays.
MarkAsOnboarded(h) ==
  /\ onb[h].pc = "mark"
  /\ IF "mark_as_onboarded" \in UserServiceMethods
       THEN /\ users' = [users EXCEPT ![onb[h].user] = TRUE]
            /\ onb' = [onb EXCEPT ![h].pc = "done", ![h].flagged = TRUE, ![h].status = 201]
       ELSE /\ users' = users
            /\ onb' = [onb EXCEPT ![h].pc = "done", ![h].status = 500]
  /\ UNCHANGED <<patients, doctors>>

\* PUT /users/{user_id}/onboarded, routes/users.py lines 146-159:
\* set_user_onboarded, user_service.py lines 121-123.
SetUserOnboarded(u) ==
  /\ users' = [users EXCEPT ![u] = TRUE]
  /\ UNCHANGED <<patients, doctors, onb>>

ProfilesOf(u) ==
  {p \in patients : p.user_id = u} \cup {d \in doctors : d.user_id = u}

----------------------------------------------------------------------------
(***************************************************************************)
(* Appointments (services/appointment_service.py)                          *)
(***************************************************************************)

MaxAppts == 1        \* appointments that get created

ApptIds == 1..MaxAppts
Callers == {"A", "B"}

\* models/appointment.py lines 10-17.
AppointmentStatus ==
  {"scheduled", "confirmed", "in_progress", "completed", "cancelled", "no_show"}

\* update_appointment, lines 239-247: AppointmentUpdate.model_dump
\* (exclude_unset = True) with the enum replaced by its value; of the
\* model's fields the status is the one followed here.
AppointmentUpdatePayloads ==
  {<<>>} \cup { << <<"status", st>> >> : st \in AppointmentStatus }

\* (variant) cancel_appointment writing another member of the enum.
CancelPayloadNoShow == << <<"status", "no_show">> >>

\* cancel_appointment, line 269: {"status": AppointmentStatus.CANCELLED.value}.
CancelPayload == << <<"status", "cancelled">> >>

NoAppointmentCall == [pc |-> "idle", op |-> "none", id |-> 0, data |-> <<>>,
                      ret |-> FALSE, existed |-> FALSE, overlapped |-> FALSE]

NoCommit == [by |-> "none", id |-> 0]

InFlight(c) == calls[c].pc \in {"statement", "read"}

\* create_appointment, lines 40-58: a fresh uuid, status "scheduled", one
\* INSERT.
CreateAppointment ==
  /\ Cardinality(appts) < MaxAppts
  /\ appts' = appts \cup
       {[c \in {"appointment_id", "status", "updated_at"} |->
           IF c = "appointment_id" THEN Cardinality(appts) + 1
           ELSE IF c = "status" THEN "scheduled"
           ELSE clock]}
  /\ UNCHANGED <<calls, lastCommit>>

\* A caller enters update_appointment or cancel_appointment: the payload is
\* built and repository.update awaited.  A call that starts while another is
\* between its first and last await overlaps it.
BeginCall(c, op, a, data) ==
  /\ calls[c].pc \in {"idle", "done"}
  /\ calls' = [d \in Callers |->
       IF d = c
         THEN [pc |-> "statement", op |-> op, id |-> a, data |-> data, ret |-> FALSE,
               existed |-> (\E r \in appts : r["appointment_id"] = a),
               overlapped |-> (\E e \in Callers \ {c} : InFlight(e))]
         ELSE IF InFlight(d) THEN [calls[d] EXCEPT !.overlapped = TRUE] ELSE calls[d]]
  /\ UNCHANGED <<appts, lastCommit>>

UpdateAppointmentCall(c, a, data) == BeginCall(c, "update", a, data)

CancelAppointmentCall(c, a) == BeginCall(c, "cancel", a, CancelPayload)

\* repository.update runs its UPDATE (repository.py lines 215-242) with
\* whatever status the payload carries: neither service method reads the
\* row's current status first.  cancel_appointment returns the boolean,
\* update_appointment goes on to get_appointment when it is true and
\* returns None otherwise (lines 250-254).
UpdateStatement(c) ==
  /\ calls[c].pc = "statement"
  /\ LET r == Update(appts, "appointment_id", calls[c].id, calls[c].data, clock) IN
       /\ appts' = r.table
       /\ lastCommit' = IF r.ret THEN [by |-> c, id |-> calls[c].id] ELSE lastCommit
       /\ calls' = [calls EXCEPT
            ![c].pc = IF calls[c].op = "update" /\ r.ret THEN "read" ELSE "done",
            ![c].ret = r.ret]

\* get_appointment, lines 70-75: find_by_id, None when the row is missing.
GetAppointment(c) ==
  /\ calls[c].pc = "read"
  /\ calls' = [calls EXCEPT
       ![c].pc = "done",
       ![c].ret = (\E r \in appts : r["appointment_id"] = calls[c].id)]
  /\ UNCHANGED <<appts, lastCommit>>

\* The status a call asks for.
Requested(call) ==
  IF call.op = "cancel" THEN "cancelled"
  ELSE IF call.data = <<>> THEN "unset" ELSE call.data[1][2]

StatusOf(a) == (CHOOSE r \in appts : r["appointment_id"] = a)["status"]

----------------------------------------------------------------------------
(***************************************************************************)
(* Enumerated fields at the service boundary                               *)
(***************************************************************************)

\* models/patient.py lines 10-26.
Gender == {"Male", "Female", "Other", "Prefer not to say"}
BloodType == {"A+", "A-", "B+", "B-", "AB+", "AB-", "O+", "O-"}

\* What a call came to: the exception it raised ("" for none), the
\* repository calls made before that, and the enum columns of the record
\* it wrote ("" where it wrote none).
Outcome(raised, repoCalls, gender, bloodType) ==
  [raised |-> raised, repoCalls |-> repoCalls, gender |-> gender, blood_type |-> bloodType]

\* PatientCreate(gender = g, blood_type = b) followed by create_patient:
\* the model's fields are typed Gender and Optional[BloodType]
\* (models/patient.py lines 58, 63), construction fails on anything else.
CreatePatientWith(g, b) ==
  IF g \notin Gender \/ b \notin BloodType \cup {""}
    THEN Outcome("ValidationError", 0, "", "")
    ELSE Outcome("", 1, g, b)

\* onboard_patient, lines 59-90: a gender Gender() does not accept is
\* replaced by "Prefer not to say", a blood type BloodType() does not accept
\* is left out; the PatientCreate built from them goes to create_patient.
OnboardPatientWith(g, b) ==
  LET gender_enum == IF g \in Gender THEN g ELSE "Prefer not to say"
      blood_type_enum == IF b # "" /\ b \in BloodType THEN b ELSE ""
  IN CreatePatientWith(gender_enum, blood_type_enum)

\* get_patient_appointments, lines 96-143: status is a plain str; when
\* given it is bound into the SELECT and the COUNT as it is.
GetPatientAppointmentsWith(st) == Outcome("", 2, "", "")

\* A call with enumerated fields: callers send a member of the enum or some
\* other text; "" stands for an optional field left out.
EnumCall ==
  /\ args = <<>>
  /\ \/ \E g \in Gender \cup {"male", "Unknown"}, b \in BloodType \cup {"C+", ""} :
          /\ args' = [call |-> "enum", op |-> "create_patient", gender |-> g, blood_type |-> b, status |-> ""]
          /\ result' = CreatePatientWith(g, b)
     \/ \E g \in Gender \cup {"male", "Unknown"}, b \in BloodType \cup {"C+", ""} :
          /\ args' = [call |-> "enum", op |-> "onboard_patient", gender |-> g, blood_type |-> b, status |-> ""]
          /\ result' = OnboardPatientWith(g, b)
     \/ \E st \in AppointmentStatus \cup {"pending", ""} :
          /\ args' = [call |-> "enum", op |-> "get_patient_appointments",
                      gender |-> "Other",
                      blood_type |-> "", status |-> st]
          /\ result' = GetPatientAppointmentsWith(st)

----------------------------------------------------------------------------
(***************************************************************************)
(* Appointment enrichment (appointment_service.py, _enrich_appointment)    *)
(***************************************************************************)

\* The patients and doctors tables: a row per id of some set of ids.
PeopleTables(idColumn) ==
  { { [c \in {idColumn, "first_name", "last_name", "specialization"} |->
         IF c = idColumn THEN i
         ELSE IF c = "first_name" THEN f[i]
         ELSE IF c = "last_name" THEN "Lee"
         ELSE "Cardiology"] : i \in DOMAIN f }
    : f \in UNION { [S -> {"Ann", "Bob"}] : S \in SUBSET Ids } }

\* d[k] on a dict.
Get(d, k) == d[CHOOSE i \in 1..Len(d) : d[i][1] = k][2]

\* execute_custom_query("SELECT ... WHERE <idColumn> = $1", id): the lists
\* of rows the query may return.
SelectById(tbl, idColumn, id) == Enumerations({r \in tbl : r[idColumn] = id})

\* (variant) the first row is taken without looking whether there is one.
EnrichAppointmentUnchecked(appointment, patientRows, doctorRows) ==
  IF patientRows = <<>> \/ doctorRows = <<>>
    THEN [raised |-> TRUE, appointment |-> appointment]
    ELSE [raised |-> FALSE,
          appointment |->
            DictSet(DictSet(DictSet(appointment,
              "patient_name", <<patientRows[1]["first_name"], " ", patientRows[1]["last_name"]>>),
              "doctor_name", <<"Dr. ", doctorRows[1]["first_name"], " ", doctorRows[1]["last_name"]>>),
              "doctor_specialization", doctorRows[1]["specialization"])]

\* _enrich_appointment, lines 294-321, given what the two queries returned:
\* a name is attached only `if patient_result:` / `if doctor_result:`.
EnrichAppointment(appointment, patientRows, doctorRows) ==
  LET a1 == IF patientRows # <<>>
              THEN DictSet(appointment, "patient_name",
                     <<patientRows[1]["first_name"], " ", patientRows[1]["last_name"]>>)
              ELSE appointment
      a2 == IF doctorRows # <<>>
              THEN DictSet(DictSet(a1, "doctor_name",
                       <<"Dr. ", doctorRows[1]["first_name"], " ", doctorRows[1]["last_name"]>>),
                     "doctor_specialization", doctorRows[1]["specialization"])
              ELSE a1
  IN [raised |-> FALSE, appointment |-> a2]

\* One appointment row enriched against a patients and a doctors table.
EnrichCall ==
  /\ args = <<>>
  /\ \E pts \in PeopleTables("patient_id"), drs \in PeopleTables("doctor_id"),
        p \in Ids, d \in Ids :
       LET appointment == << <<"appointment_id", 1>>, <<"patient_id", p>>,
                             <<"doctor_id", d>>, <<"status", "scheduled">> >>
       IN /\ args' = [call |-> "_enrich_appointment", patients |-> pts, doctors |-> drs, appointment |-> appointment]
          /\ \E pr \in SelectById(pts, "patient_id", p), dr \in SelectById(drs, "doctor_id", d) :
               result' = EnrichAppointment(appointment, pr, dr)

----------------------------------------------------------------------------
(***************************************************************************)
(* The /health endpoint (main.py, health_check)                            *)
(***************************************************************************)

\* (variant) the handler without its try/except: a failure leaves it as an
\* exception.
HealthCheckUncaught(p, outcome) ==
  IF p = None /\ outcome.create # ""
    THEN [status |-> "", raised |-> TRUE, pool |-> None, created |-> TRUE]
  ELSE IF outcome.probe # ""
    THEN [status |-> "", raised |-> TRUE,
          pool |-> IF p = None THEN p + 1 ELSE p, created |-> p = None]
  ELSE [status |-> "healthy", raised |-> FALSE,
        pool |-> IF p = None THEN p + 1 ELSE p, created |-> p = None]

\* health_check, lines 97-118, with the manager holding pool p (None: no
\* pool).  get_pool() creates a pool when there is none (connection.py lines
\* 50-52) and raises ConnectionError when that fails, leaving _pool unset;
\* then the probe `SELECT 1` runs on an acquired connection.  Every Exception
\* ends in the "unhealthy" response.  outcome is what the database does:
\* the failure of create_pool and of the probe ("" for none).  created tells
\* whether create_pool was attempted.
HealthCheck(p, outcome) ==
  IF p = None /\ outcome.create # ""
    THEN [status |-> "unhealthy", raised |-> FALSE, pool |-> None, created |-> TRUE]
  ELSE IF outcome.probe # ""
    THEN [status |-> "unhealthy", raised |-> FALSE,
          pool |-> IF p = None THEN p + 1 ELSE p, created |-> p = None]
  ELSE [status |-> "healthy", raised |-> FALSE,
        pool |-> IF p = None THEN p + 1 ELSE p, created |-> p = None]

\* Two requests to /health, one after the other.
HealthCall ==
  /\ args = <<>>
  /\ \E p \in {None, 1} :
     \E o1, o2 \in [create : {"", "OSError"},
                    probe : {"", "TimeoutError", "InterfaceError"}] :
       LET first == HealthCheck(p, o1)
       IN /\ args' = [call |-> "health_check", pool |-> p, outcomes |-> <<o1, o2>>]
          /\ result' = <<first, HealthCheck(first.pool, o2)>>

----------------------------------------------------------------------------
(***************************************************************************)
(* POST /users (routes/users.py, services/user_service.py)                 *)
(***************************************************************************)

\* create_user (routes/users.py lines 34-48) on the users table tbl for the
\* Firebase UID uid.  get_user_by_firebase_uid looks for an active row with
\* that UID and returns None when the lookup raises (user_service.py lines
\* 59-67); the HTTPException(409) of line 38 is raised inside the try block
\* whose `except Exception` (line 44) turns every exception into
\* HTTPException(500); otherwise the service inserts a row with a fresh
\* user_id and is_active = True (user_service.py lines 35-48), and a failing
\* INSERT ends in the same except clause.  outcome is what the database
\* does: the failure of the lookup and of the INSERT ("" for none).
CreateUserRequest(tbl, uid, outcome) ==
  LET existing_user ==
        /\ outcome.lookup = ""
        /\ \E r \in tbl : r["firebase_uid"] = uid /\ r["is_active"] = 1
  IN IF existing_user
       THEN [status |-> 500, table |-> tbl]
     ELSE IF outcome.insert # ""
       THEN [status |-> 500, table |-> tbl]
     ELSE [status |-> 201,
           table |-> tbl \cup {[c \in {"user_id", "firebase_uid", "is_active"} |->
                                  IF c = "user_id" THEN MaxId + 1
                                  ELSE IF c = "firebase_uid" THEN uid
                                  ELSE 1]}]

\* One POST /users on a table of users with distinct user_ids.
CreateUserCall ==
  /\ args = <<>>
  /\ \E f \in UNION { [S -> {"uid1", "uid2"} \X Vals] : S \in SUBSET Ids },
        uid \in {"uid1", "uid2"},
        outcome \in [lookup : {"", "TimeoutError"}, insert : {"", "UniqueViolationError"}] :
       LET tbl == { [c \in {"user_id", "firebase_uid", "is_active"} |->
                       IF c = "user_id" THEN i
                       ELSE IF c = "firebase_uid" THEN f[i][1]
                       ELSE f[i][2]] : i \in DOMAIN f }
       IN /\ args' = [call |-> "create_user", table |-> tbl, uid |-> uid, outcome |-> outcome]
          /\ result' = CreateUserRequest(tbl, uid, outcome)

----------------------------------------------------------------------------
(***************************************************************************)
(* Agent orchestrator and streaming service (agents/services)              *)
(***************************************************************************)

MaxChunks == 2       \* most chunks an agent yields in one operation

\* The frames one orchestrator operation sends to its session, in order
\* (adk_agent_orchestrator.py lines 77-100, and the same lines of
\* get_patient_summary, analyze_vitals, summarize_prescriptions).  The
\* agent yields `chunks` chunks; with failed it then raises, and the
\* `except Exception` clause sends an error frame and nothing else.
StreamFrames(hasService, stream, chunks, failed) ==
  LET framed == hasService /\ stream
      opening == IF framed THEN <<"typing(true)", "stream_start">> ELSE <<>>
      body == IF framed THEN [i \in 1..chunks |-> "stream_chunk"] ELSE <<>>
      closing == IF failed
                   THEN IF hasService THEN <<"error">> ELSE <<>>
                   ELSE IF framed THEN <<"stream_end", "typing(false)">> ELSE <<>>
  IN opening \o body \o closing

\* One operation run to its end by its caller.
StreamCall ==
  /\ args = <<>>
  /\ \E op \in {"process_chat_message", "get_patient_summary", "analyze_vitals",
                "summarize_prescriptions"},
        hasService \in BOOLEAN, stream \in BOOLEAN, chunks \in 0..MaxChunks,
        failed \in BOOLEAN :
       /\ args' = [call |-> "stream", op |-> op, hasService |-> hasService,
                   stream |-> stream, chunks |-> chunks, failed |-> failed]
       /\ result' = StreamFrames(hasService, stream, chunks, failed)

MaxOps == 2          \* longest sequence of registry operations followed

\* The registries of the streaming service after one more operation.  reg
\* holds active_connections (its session ids), user_sessions (pairs of user
\* and session) and message_queue (its session ids); o names the operation,
\* its session and user_id ("" for None) and whether the websocket's
\* send_json raises.
\*   disconnect   streaming_service.py lines 52-58
\*   send_message lines 60-69: a failing send calls disconnect(session_id),
\*                without a user_id
\*   connect      lines 36-50: register, then send the confirmation
\*   open         handle_websocket lines 131-135: connect, create the queue
\*   terminate    handle_websocket lines 145-158: disconnect(session_id,
\*                user_id), delete the queue
RegistryStep(reg, o) ==
  LET Disconnect(r, u) ==
        [r EXCEPT !.active_connections = @ \ {o.session},
                  !.user_sessions = IF u # "" THEN {q \in @ : q[1] # u} ELSE @]
      SendMessage(r) ==
        IF o.session \in r.active_connections /\ o.fails THEN Disconnect(r, "") ELSE r
      Connect(r) ==
        SendMessage([r EXCEPT
          !.active_connections = @ \cup {o.session},
          !.user_sessions = IF o.user # ""
                              THEN {q \in @ : q[1] # o.user} \cup {<<o.user, o.session>>}
                              ELSE @])
  IN IF o.op = "disconnect" THEN Disconnect(reg, o.user)
     ELSE IF o.op = "send_message" THEN SendMessage(reg)
     ELSE IF o.op = "connect" THEN Connect(reg)
     ELSE IF o.op = "open"
       THEN [Connect(reg) EXCEPT !.message_queue = @ \cup {o.session}]
     ELSE [Disconnect(SendMessage(reg), o.user) EXCEPT !.message_queue = @ \ {o.session}]

\* The registries after the operations ops[i], ops[i + 1], ...
RECURSIVE RegistryAfter(_, _, _)
RegistryAfter(reg, ops, i) ==
  IF i > Len(ops) THEN reg ELSE RegistryAfter(RegistryStep(reg, ops[i]), ops, i + 1)

\* A sequence of operations on a fresh StreamingService (lines 30-34,
\* 118-120); every session belongs to one user, or to none.
RegistryCall ==
  /\ args = <<>>
  /\ \E owner \in [{"s1", "s2"} -> {"", "u1", "u2"}], n \in 0..MaxOps :
     \E ks \in [1..n -> {"connect", "open", "disconnect", "send_message", "terminate"}
                          \X {"s1", "s2"} \X BOOLEAN] :
       LET ops == [i \in 1..n |-> [op |-> ks[i][1], session |-> ks[i][2],
                                   user |-> owner[ks[i][2]], fails |-> ks[i][3]]]
       IN /\ args' = [call |-> "registry", ops |-> ops]
          /\ result' = RegistryAfter([active_connections |-> {}, user_sessions |-> {},
                                      message_queue |-> {}], ops, 1)

NCallers == 2        \* concurrent callers of the orchestrator

\* _ensure_chat_agent / _ensure_record_agent, lines 47 and 57: with the
\* agent present the method returns it; otherwise the caller goes for
\* self._init_lock, where it may have to wait.
EnsureEnter(t, k) ==
  /\ ens[t].pc = "idle"
  /\ ens' = [ens EXCEPT ![t] =
       IF agent[k] # None
         THEN [pc |-> "returned", kind |-> k, got |-> agent[k]]
         ELSE [pc |-> "locking", kind |-> k, got |-> None]]
  /\ UNCHANGED <<agent, built>>

\* (variant) no second look at the agent once the lock is held.
LockedInitUnchecked(t) ==
  /\ ens[t].pc = "locking"
  /\ LET k == ens[t].kind IN
       /\ built' = [built EXCEPT ![k] = @ + 1]
       /\ agent' = [agent EXCEPT ![k] = built[k] + 1]
       /\ ens' = [ens EXCEPT ![t] = [pc |-> "returned", kind |-> k, got |-> built[k] + 1]]

\* Lines 48-53 and 58-63: the caller holds the lock, looks at the agent
\* again, constructs it when it is still None, releases the lock and
\* returns the agent.  Nothing is awaited while the lock is held, so the
\* lock is free whenever a caller comes to take it.  A constructor that
\* raises leaves the agent None and the exception goes to the caller.
LockedInit(t) ==
  /\ ens[t].pc = "locking"
  /\ LET k == ens[t].kind IN
       IF agent[k] # None
         THEN /\ ens' = [ens EXCEPT ![t] = [pc |-> "returned", kind |-> k, got |-> agent[k]]]
              /\ UNCHANGED <<agent, built>>
         ELSE \/ /\ built' = [built EXCEPT ![k] = @ + 1]
                 /\ agent' = [agent EXCEPT ![k] = built[k] + 1]
                 /\ ens' = [ens EXCEPT ![t] =
                      [pc |-> "returned", kind |-> k, got |-> built[k] + 1]]
              \/ /\ ens' = [ens EXCEPT ![t] = [pc |-> "raised", kind |-> k, got |-> None]]
                 /\ UNCHANGED <<agent, built>>

\* The caller goes on and may ask for an agent again.
EnsureReset(t) ==
  /\ ens[t].pc \in {"returned", "raised"}
  /\ ens' = [ens EXCEPT ![t] = [pc |-> "idle", kind |-> "chat", got |-> None]]
  /\ UNCHANGED <<agent, built>>

----------------------------------------------------------------------------
(***************************************************************************)
(* Specifications                                                          *)
(***************************************************************************)

PageIdle ==
  /\ listing = [op |-> "none", size |-> 0]
  /\ pages = <<>>

OnbIdle ==
  /\ users = [u \in UserIds |-> FALSE]
  /\ patients = {}
  /\ doctors = {}
  /\ onb = [h \in Handlers |-> NoOnboarding]

ApptIdle ==
  /\ appts = {}
  /\ calls = [c \in Callers |-> NoAppointmentCall]
  /\ lastCommit = NoCommit

RecIdle ==
  /\ found = NoRead
  /\ again = FALSE

CallIdle ==
  /\ args = <<>>
  /\ result = <<>>

AgentIdle ==
  /\ agent = [k \in {"chat", "record"} |-> None]
  /\ built = [k \in {"chat", "record"} |-> 0]
  /\ ens = [t \in 1..NCallers |-> [pc |-> "idle", kind |-> "chat", got |-> None]]

PoolIdle ==
  /\ pool = None
  /\ opened = {}
  /\ closed = {}
  /\ tpc = [t \in Tasks |-> "idle"]
  /\ got = [t \in Tasks |-> None]

RepoIdle ==
  /\ table = {}
  /\ clock = 0
  /\ last = NoCall

\* Nothing has been opened, stored or called.
Init ==
  /\ PoolIdle /\ RepoIdle /\ PageIdle /\ OnbIdle /\ ApptIdle /\ RecIdle /\ CallIdle
  /\ AgentIdle

\* -- the connection manager alone --
NextPool ==
  /\ \E t \in Tasks :
       \/ GetPoolEnter(t)
       \/ CreatePoolOk(t)
       \/ CreatePoolFail(t)
       \/ CloseEnter(t)
       \/ CloseDone(t)
       \/ TaskReset(t)
  /\ UNCHANGED <<repoVars, pageVars, onbVars, apptVars, recVars, callVars, agentVars>>

SpecPool == Init /\ [][NextPool]_vars

\* -- the connection manager called by one task at a time: a call starts
\* only when no other task is inside get_pool() or close() --
NextPoolSeq ==
  /\ \E t \in Tasks :
       \/ /\ \A u \in Tasks \ {t} : tpc[u] \notin {"creating", "closing"}
          /\ \/ GetPoolEnter(t)
             \/ CloseEnter(t)
       \/ CreatePoolOk(t)
       \/ CreatePoolFail(t)
       \/ CloseDone(t)
       \/ TaskReset(t)
  /\ UNCHANGED <<repoVars, pageVars, onbVars, apptVars, recVars, callVars, agentVars>>

SpecPoolSeq == Init /\ [][NextPoolSeq]_vars

\* -- the repository's write operations on one table --
NextRepo ==
  /\ \/ \E data \in InsertPayloads : RepoInsert(data, RepoClock)
     \/ \E i \in Ids, data \in UpdatePayloads : RepoUpdate(i, data, RepoClock)
     \/ \E i \in Ids : RepoSoftDelete(i, RepoClock)
     \/ \E i \in Ids : RepoDelete(i)
  /\ UNCHANGED <<poolVars, pageVars, onbVars, apptVars, recVars, callVars, agentVars>>

SpecRepo == Init /\ [][NextRepo]_vars

\* -- one insert_many call on a table that holds earlier inserts --
InitBatch ==
  /\ PoolIdle /\ PageIdle /\ OnbIdle /\ ApptIdle /\ RecIdle /\ CallIdle /\ AgentIdle
  /\ \E S \in SUBSET Ids : \E f \in [S -> Vals] : table = Seeded(f)
  /\ clock = 0
  /\ last = NoCall

NextBatch ==
  /\ last = NoCall
  /\ \E records \in Batches : RepoInsertMany(records, MaxClock)
  /\ UNCHANGED <<poolVars, pageVars, onbVars, apptVars, recVars, callVars, agentVars>>

SpecBatch == InitBatch /\ [][NextBatch]_vars

\* -- a table is filled, then paged through --
NextPage ==
  /\ \/ PageLoad
     \/ \E P \in 1..MaxPageSize : ListPatientsPage(P)
     \/ \E L \in 1..MaxPageSize : FindAllPage(L)
  /\ UNCHANGED <<poolVars, onbVars, apptVars, recVars, callVars, agentVars>>

SpecPage == Init /\ [][NextPage]_vars

\* -- onboarding requests served by two handlers --
NextOnboarding ==
  /\ \/ \E h \in Handlers, u \in UserIds : OnboardPatient(h, u)
     \/ \E h \in Handlers, u \in UserIds : OnboardDoctor(h, u)
     \/ \E h \in Handlers : MarkAsOnboarded(h)
     \/ \E u \in UserIds : SetUserOnboarded(u)
  /\ UNCHANGED <<poolVars, repoVars, pageVars, apptVars, recVars, callVars, agentVars>>

SpecOnboarding == Init /\ [][NextOnboarding]_vars

\* -- two callers changing appointments --
NextAppointments ==
  /\ \/ CreateAppointment
     \/ \E c \in Callers, a \in ApptIds, data \in AppointmentUpdatePayloads :
          UpdateAppointmentCall(c, a, data)
     \/ \E c \in Callers, a \in ApptIds : CancelAppointmentCall(c, a)
     \/ \E c \in Callers : UpdateStatement(c)
     \/ \E c \in Callers : GetAppointment(c)
  /\ UNCHANGED <<poolVars, repoVars, pageVars, onbVars, recVars, callVars, agentVars>>

SpecAppointments == Init /\ [][NextAppointments]_vars

\* -- a caller inserts a record, changes it, deletes it and looks it up --
NextRecord ==
  /\ \/ \E i \in RecIds : RecInsert(i)
     \/ \E i \in RecIds, data \in RecordUpdates : RecUpdate(i, data)
     \/ \E i \in RecIds : RecSoftDelete(i)
     \/ \E i \in RecIds : RecDelete(i)
     \/ \E i \in RecIds : RecFindById(i)
  /\ UNCHANGED <<poolVars, pageVars, onbVars, apptVars, callVars, agentVars>>

SpecRecord == Init /\ [][NextRecord]_vars

\* -- one call of a read operation or of a service function --
NextCalls ==
  /\ \/ FilterCall
     \/ CommandCall
     \/ InsertManyCall
     \/ HealthCall
     \/ CreateUserCall
     \/ StreamCall
     \/ RegistryCall
     \/ SearchCall
     \/ JsonStoreAndFind
     \/ AgeCall
     \/ EnumCall
     \/ EnrichCall
  /\ UNCHANGED <<poolVars, repoVars, pageVars, onbVars, apptVars, recVars, agentVars>>

SpecCalls == Init /\ [][NextCalls]_vars

\* -- callers asking the orchestrator for its agents --
NextAgents ==
  /\ \E t \in 1..NCallers :
       \/ \E k \in {"chat", "record"} : EnsureEnter(t, k)
       \/ LockedInit(t)
       \/ EnsureReset(t)
  /\ UNCHANGED <<poolVars, repoVars, pageVars, onbVars, apptVars, recVars, callVars>>

SpecAgents == Init /\ [][NextAgents]_vars

----------------------------------------------------------------------------
(***************************************************************************)
(* Properties                                                              *)
(***************************************************************************)

\* C1: while nobody has closed a pool, concurrent first callers of get_pool()
\* open at most one pool, every caller that returned holds that same pool,
\* and no opened pool is left unreferenced by the manager.
C1_PoolCreatedOnce ==
  closed = {} /\ (\A t \in Tasks : tpc[t] \notin {"closing", "closed"}) =>
    /\ Cardinality(opened) <= 1
    /\ \A t \in Tasks : tpc[t] = "returned" => got[t] = pool
    /\ opened \subseteq {pool}

\* C2: an update that returns true leaves every column the payload does not
\* name, other than updated_at, at the value the row had before the call.
C2_PartialUpdate ==
  [][ (last'.op = "update" /\ last'.ret) =>
        \A r \in table : r["id"] = last'.id =>
          \E r2 \in table' :
            /\ r2["id"] = r["id"]
            /\ \A c \in Cols \ (last'.cols \cup {"updated_at"}) : r2[c] = r[c] ]_vars

\* An update of first_name alone has returned true on a row that had been
\* soft-deleted before: is_active, absent from the payload, is still 0.
C2_Witness ==
  /\ last.op = "update" /\ last.ret /\ last.cols = {"first_name"}
  /\ \E r \in table : r["id"] = last.id /\ r["is_active"] = 0

\* C3: update returns true exactly when its statement affected exactly one
\* row; when no row has the id it returns false, raises nothing and leaves
\* the table as it was.
C3_UpdateReturn ==
  [][ last'.op = "update" =>
        LET n == Cardinality({r \in table : r["id"] = last'.id})
            affected == IF last'.cols = {} THEN 0 ELSE n
        IN /\ last'.ret <=> (affected = 1)
           /\ ~last'.raised
           /\ (n = 0 => ~last'.ret /\ table' = table) ]_vars

\* An update with a non-empty payload has returned false because no row of a
\* non-empty table carries the id.
C3_Witness ==
  /\ last.op = "update" /\ last.cols # {} /\ ~last.ret
  /\ table # {}
  /\ \A r \in table : r["id"] # last.id

\* C4: insert_many is all-or-nothing: when it raises the table is as it was
\* before the call, when it returns every record of the call has become a
\* new row.
C4_InsertManyAtomic ==
  [][ last'.op = "insert_many" =>
        IF last'.raised
          THEN table' = table
          ELSE table \subseteq table' /\ Cardinality(table' \ table) = last'.n ]_vars

\* A batch has raised on its second or a later record, after the INSERT of
\* an earlier record of the same call had succeeded.
C4_Witness ==
  last.op = "insert_many" /\ last.raised /\ last.failedAt >= 2

RECURSIVE Flatten(_)
Flatten(ss) == IF ss = <<>> THEN <<>> ELSE Head(ss) \o Flatten(Tail(ss))

CreatedAt(i) == (CHOOSE r \in table : r["id"] = i)["created_at"]

\* C5: once list_patients(active_only = True) has been asked for the pages
\* 1..ceil(N/P), the pages together hold every active patient exactly once,
\* in non-increasing created_at order.
C5_ListPatientsPaging ==
  LET active == {r \in table : r["is_active"] = 1}
      all == Flatten(pages)
  IN (/\ listing.op = "list_patients"
      /\ Len(pages) = (Cardinality(active) + listing.size - 1) \div listing.size) =>
       /\ Len(all) = Cardinality(active)
       /\ \A r \in active : \E i \in 1..Len(all) : all[i] = r["id"]
       /\ \A i, j \in 1..Len(all) : i < j => CreatedAt(all[i]) >= CreatedAt(all[j])

\* C6: the windows find_all returned at offsets 0, L, 2L, ... are the
\* consecutive windows of one newest-first ordering of the table: pairwise
\* disjoint and, once the last window is fetched, holding every record
\* exactly once.
C6_FindAllWindows ==
  listing.op = "find_all" =>
    LET all == Flatten(pages) IN
      /\ \E f \in OrderedByCreatedDesc(table) :
           \A k \in 1..Len(pages) :
             pages[k] = IdsOf(Window(f, (k - 1) * listing.size, listing.size))
      /\ \A i, j \in 1..Len(all) : i # j => all[i] # all[j]
      /\ Len(pages) * listing.size >= Cardinality(table) =>
           \A r \in table : \E i \in 1..Len(all) : all[i] = r["id"]

\* C7: whatever onboarding requests were served, one after the other or
\* interleaved, a user has at most one profile row.
C7_OneProfilePerUser ==
  \A u \in UserIds : Cardinality(ProfilesOf(u)) <= 1

\* C8: when an onboarding call has finished, with a result or with an
\* error, it has created a profile row for the user exactly if it has set
\* the user's is_onboarded flag.
C8_ProfileIffOnboarded ==
  \A h \in Handlers :
    onb[h].pc = "done" => (onb[h].created <=> onb[h].flagged)

\* C9: an appointment is created scheduled and its status only ever moves
\* along scheduled -> confirmed -> in_progress -> completed,
\* scheduled|confirmed -> cancelled and scheduled|confirmed -> no_show.
C9_StatusTransitions ==
  [][ LET Allowed == { <<"scheduled", "confirmed">>, <<"confirmed", "in_progress">>,
                       <<"in_progress", "completed">>,
                       <<"scheduled", "cancelled">>, <<"confirmed", "cancelled">>,
                       <<"scheduled", "no_show">>, <<"confirmed", "no_show">> }
      IN \A r2 \in appts' :
           IF \E r \in appts : r["appointment_id"] = r2["appointment_id"]
             THEN \A r \in appts :
                    (r["appointment_id"] = r2["appointment_id"]
                       /\ r["status"] # r2["status"]) =>
                      <<r["status"], r2["status"]>> \in Allowed
             ELSE r2["status"] = "scheduled" ]_vars

\* C10: when one caller has asked for confirmed and the other for cancelled
\* on an appointment that existed when they called, and both calls are over,
\* both have returned their success value and the row's status is confirmed
\* or cancelled: the one asked for by the call whose UPDATE ran last.
C10_ConcurrentStatusUpdates ==
  \A c, d \in Callers :
    (/\ c # d
     /\ calls[c].pc = "done" /\ calls[d].pc = "done"
     /\ calls[c].id = calls[d].id
     /\ calls[c].existed /\ calls[d].existed
     /\ Requested(calls[c]) = "confirmed"
     /\ Requested(calls[d]) = "cancelled") =>
      /\ calls[c].ret /\ calls[d].ret
      /\ StatusOf(calls[c].id) \in {"confirmed", "cancelled"}
      /\ lastCommit.id = calls[c].id
      /\ lastCommit.by \in {c, d}
      /\ StatusOf(calls[c].id) = Requested(calls[lastCommit.by])

\* Both calls overlapped, update_appointment(confirmed) ran its UPDATE after
\* cancel_appointment ran its own, and both are over.
C10_Witness ==
  /\ calls["A"].pc = "done" /\ calls["B"].pc = "done"
  /\ calls["A"].op = "update" /\ Requested(calls["A"]) = "confirmed"
  /\ calls["B"].op = "cancel"
  /\ calls["A"].id = calls["B"].id
  /\ calls["A"].existed /\ calls["B"].existed
  /\ calls["A"].overlapped /\ calls["B"].overlapped
  /\ lastCommit.by = "A"

\* C11: find_by_id issued right after a successful insert returns the
\* inserted record, with created_at equal to updated_at.
C11_InsertThenFind ==
  (last.op = "insert" /\ ~last.raised /\ found.id = last.id) =>
    /\ Len(found.rows) = 1
    /\ found.rows[1]["id"] = last.id
    /\ found.rows[1]["created_at"] = found.rows[1]["updated_at"]

\* C12: no call changes a row's created_at; updated_at is the clock reading
\* of the insert or of the latest update or soft_delete that affected the
\* row, and is never earlier than created_at.
C12_Timestamps ==
  [][ \A r2 \in table' :
        /\ r2["updated_at"] >= r2["created_at"]
        /\ IF \E r \in table : r["id"] = r2["id"]
             THEN \A r \in table : r["id"] = r2["id"] =>
                    /\ r2["created_at"] = r["created_at"]
                    /\ r2["updated_at"] =
                         IF last'.op \in {"update", "soft_delete"} /\ last'.ret
                              /\ last'.id = r["id"]
                           THEN clock' ELSE r["updated_at"]
             ELSE /\ last'.op = "insert"
                  /\ clock <= r2["created_at"]
                  /\ r2["updated_at"] = clock' ]_vars

\* An update has refreshed updated_at of a record to an instant later than
\* the one it was created at.
C12_Witness ==
  /\ last.op = "update" /\ last.ret
  /\ \E r \in table : r["id"] = last.id /\ r["updated_at"] > r["created_at"]

\* C13: soft_delete on an existing id returns true and leaves the row with
\* is_active = false, whether or not the row was soft-deleted before.
C13_SoftDeleteIdempotent ==
  [][ (last'.op = "soft_delete" /\ \E r \in table : r["id"] = last'.id) =>
        /\ last'.ret
        /\ ~last'.raised
        /\ \E r2 \in table' : r2["id"] = last'.id
        /\ \A r2 \in table' : r2["id"] = last'.id => r2["is_active"] = 0 ]_vars

\* soft_delete has been called a second time on the same id.
C13_Witness ==
  /\ again
  /\ last.op = "soft_delete" /\ last.ret
  /\ \E r \in table : r["id"] = last.id /\ r["is_active"] = 0

\* C14: find_by_id returns the row with the id whenever the table holds it,
\* active or not, and None exactly when it does not: after a soft_delete the
\* row comes back with is_active = false, after a delete nothing does.
C14_SoftDeletedStillFound ==
  found.id # 0 =>
    /\ \A r \in table : r["id"] = found.id => found.rows = <<r>>
    /\ found.rows = <<>> <=> ~(\E r \in table : r["id"] = found.id)
    /\ (last.op = "soft_delete" /\ last.ret /\ last.id = found.id) =>
         (Len(found.rows) = 1 /\ found.rows[1]["is_active"] = 0)
    /\ (last.op = "delete" /\ last.ret /\ last.id = found.id) => found.rows = <<>>

\* find_by_id has returned a soft-deleted row.
C14_Witness ==
  /\ last.op = "soft_delete" /\ last.ret /\ found.id = last.id
  /\ Len(found.rows) = 1
  /\ found.rows[1]["is_active"] = 0

\* C15: a search with fields and a term returns only records in which one
\* of the fields contains the term, case-insensitively, and, unless the
\* limit cut the result short, every such record.
C15_SearchContains ==
  (args # <<>> /\ args.call = "search" /\ args.fields # <<>> /\ args.term # <<>>) =>
    LET holds(r) == \E i \in 1..Len(args.fields) :
                      Contains(Lower(r[args.fields[i]]), Lower(args.term))
    IN /\ \A k \in 1..Len(result) : holds(result[k])
       /\ Len(result) < args.limit =>
            \A r \in args.table : holds(r) => \E k \in 1..Len(result) : result[k] = r

\* C16: count(filters) is the number of records that carry, on every
\* filtered column, the value the filter names (a NULL equals nothing);
\* find_by_filter(filters, limit) returns only such records, each once, and
\* min(limit, count(filters)) of them.
C16_FilterAndCount ==
  (args # <<>> /\ args.call = "find_by_filter") =>
    LET fits(r) == \A i \in 1..Len(args.filters) :
                     /\ args.filters[i][2] # Null
                     /\ r[args.filters[i][1]] = args.filters[i][2]
        n == Cardinality({r \in args.table : fits(r)})
    IN /\ result.count = n
       /\ Len(result.rows) = Min(args.limit, n)
       /\ \A k \in 1..Len(result.rows) : result.rows[k] \in args.table /\ fits(result.rows[k])
       /\ \A j, k \in 1..Len(result.rows) : j # k => result.rows[j] # result.rows[k]

\* A filter on two columns fits one record of two, and the lookup returned
\* that record.
C16_Witness ==
  /\ args # <<>>
  /\ args.call = "find_by_filter"
  /\ Len(args.filters) = 2
  /\ Cardinality(args.table) = 2
  /\ result.count = 1
  /\ Len(result.rows) = 1

\* C17: a list or object stored through insert or update comes back from
\* find_by_id as a structure equal to the one stored.
C17_JsonRoundTrip ==
  (args # <<>> /\ args.call = "find_by_id") => result = args.value

\* C18: the stored age is the year difference, less one when this year's
\* birthday is still to come; for a birth date not after today that is the
\* number of birthdays that have come round since.
C18_Age ==
  (args # <<>> /\ args.call = "age") =>
    LET dob == args.dob
        today == args.today
        DayOfYear(dt) == dt.month * 100 + dt.day
        Ordinal(dt) == dt.year * 10000 + DayOfYear(dt)
        toCome == DayOfYear(today) < DayOfYear(dob)
        birthdays == {y \in (dob.year + 1)..today.year :
                        y * 10000 + DayOfYear(dob) <= Ordinal(today)}
    IN /\ result = (today.year - dob.year) - (IF toCome THEN 1 ELSE 0)
       /\ Ordinal(dob) <= Ordinal(today) => result = Cardinality(birthdays)

\* Born 2000-06-15, created on 2024-06-14: 23.
C18_Witness ==
  /\ args # <<>>
  /\ args.call = "age"
  /\ args.op = "create_patient"
  /\ args.dob = [year |-> 2000, month |-> 6, day |-> 15]
  /\ args.today = [year |-> 2024, month |-> 6, day |-> 14]
  /\ result = 23

\* C19: a call given a value outside its enum raises a validation error
\* before any repository call, and no record is written whose enum column
\* differs from what the caller sent.
C19_EnumRejected ==
  (args # <<>> /\ args.call = "enum") =>
    /\ (\/ args.gender \notin Gender
        \/ args.blood_type \notin BloodType \cup {""}
        \/ args.status \notin AppointmentStatus \cup {""}) =>
         (result.raised = "ValidationError" /\ result.repoCalls = 0)
    /\ (result.raised = "" /\ args.op # "get_patient_appointments") =>
         (result.gender = args.gender /\ result.blood_type = args.blood_type)

\* C20: enrichment returns the appointment without raising; patient_name is
\* attached exactly when a patient carries the appointment's patient_id,
\* doctor_name and doctor_specialization exactly when a doctor carries its
\* doctor_id, and every field the appointment had is kept.
C20_EnrichNeverFails ==
  (args # <<>> /\ args.call = "_enrich_appointment") =>
    LET a == args.appointment
        e == result.appointment
        pts == {r \in args.patients : r["patient_id"] = Get(a, "patient_id")}
        drs == {r \in args.doctors : r["doctor_id"] = Get(a, "doctor_id")}
    IN /\ ~result.raised
       /\ \A i \in 1..Len(a) : a[i][1] \in KeySet(e) /\ Get(e, a[i][1]) = a[i][2]
       /\ "patient_name" \in KeySet(e) <=> pts # {}
       /\ \A r \in pts : Get(e, "patient_name") = <<r["first_name"], " ", r["last_name"]>>
       /\ "doctor_name" \in KeySet(e) <=> drs # {}
       /\ "doctor_specialization" \in KeySet(e) <=> drs # {}
       /\ \A r \in drs :
            /\ Get(e, "doctor_name") = <<"Dr. ", r["first_name"], " ", r["last_name"]>>
            /\ Get(e, "doctor_specialization") = r["specialization"]

\* The doctor resolved and the patient did not: the appointment came back
\* with the doctor's name and without a patient_name.
C20_Witness ==
  /\ args # <<>>
  /\ args.call = "_enrich_appointment"
  /\ ~result.raised
  /\ \A r \in args.patients : r["patient_id"] # Get(args.appointment, "patient_id")
  /\ \E r \in args.doctors : r["doctor_id"] = Get(args.appointment, "doctor_id")
  /\ "doctor_name" \in KeySet(result.appointment)
  /\ "patient_name" \notin KeySet(result.appointment)

\* C21: with calls made one after another, a get_pool() that finds a pool
\* returns that pool and opens none, whichever task makes it; so at most one
\* pool is open and unclosed at any time, and it is the manager's.
C21_GetPoolIdempotent ==
  [][ /\ \A t \in Tasks :
           (tpc[t] # "returned" /\ tpc'[t] = "returned" /\ pool # None) =>
             (got'[t] = pool /\ pool' = pool /\ opened' = opened)
      /\ (opened' \ closed') \subseteq {pool'} ]_vars

\* Both tasks have called get_pool() in turn and hold the one pool opened.
C21_Witness ==
  /\ \A t \in Tasks : tpc[t] = "returned" /\ got[t] = pool
  /\ opened = {pool}
  /\ closed = {}

\* C22: close() without a pool returns at once and changes nothing; close()
\* on a pool closes that pool and leaves the manager without one; a
\* get_pool() that finds no pool opens a pool never opened before.
C22_CloseSafe ==
  [][ \A t \in Tasks :
        /\ (tpc[t] = "idle" /\ tpc'[t] = "closed") =>
             (pool = None /\ UNCHANGED <<pool, opened, closed>>)
        /\ (tpc[t] = "idle" /\ pool # None /\ tpc'[t] \notin {"idle", "returned"}) =>
             (tpc'[t] = "closing" /\ got'[t] = pool)
        /\ (tpc[t] = "closing" /\ tpc'[t] = "closed") =>
             (got[t] \in closed' /\ pool' = None)
        /\ (tpc[t] = "idle" /\ pool = None /\ tpc'[t] \notin {"idle", "closed"}) =>
             tpc'[t] = "creating"
        /\ (tpc[t] = "creating" /\ tpc'[t] = "returned") =>
             (got'[t] \notin opened \cup closed /\ got'[t] \in opened' /\ pool' = got'[t]) ]_vars

\* A pool was closed, and a later get_pool() returned a fresh one.
C22_Witness ==
  /\ closed # {}
  /\ pool # None /\ pool \notin closed
  /\ \E t \in Tasks : tpc[t] = "returned" /\ got[t] = pool

\* C23 (as claimed): a call issues its command at most once and raises the
\* command's failure as it is; a call that returns a failure value without
\* raising is an update whose statement matched no row.
C23_NoRetryOnlyUpdateFalse ==
  (args # <<>> /\ args.call = "command") =>
    /\ result.attempts <= 1
    /\ (result.attempts = 1 /\ args.outcome.command # "") =>
         result.raised = args.outcome.command
    /\ (result.raised = "" /\ ~result.ret) =>
         (args.op \in {"update", "soft_delete"} /\ result.attempts = 1 /\ args.outcome.rows = 0)

\* C23 (amended): a call issues its command at most once; a failure of
\* acquire() or of the command is raised as it is and nothing else is
\* raised; a call returns false without raising only from update,
\* soft_delete or delete when the statement did not affect one row, or from
\* update with an empty payload, which issues no command.
C23_NoRetry ==
  (args # <<>> /\ args.call = "command") =>
    /\ result.attempts <= 1
    /\ (result.attempts = 1 /\ args.outcome.command # "") =>
         result.raised = args.outcome.command
    /\ result.raised \in {"", args.outcome.acquire, args.outcome.command}
    /\ (result.raised = "" /\ result.attempts = 1) =>
         (args.outcome.acquire = "" /\ args.outcome.command = "")
    /\ (result.raised = "" /\ ~result.ret) =>
         \/ (args.op = "update" /\ args.data = <<>> /\ result.attempts = 0)
         \/ (args.op \in {"update", "soft_delete", "delete"} /\ args.outcome.rows # 1)

\* A delete whose command timed out: issued once, TimeoutError raised.
C23_Witness ==
  /\ args # <<>>
  /\ args.call = "command"
  /\ args.op = "delete"
  /\ args.outcome.acquire = ""
  /\ args.outcome.command = "TimeoutError"
  /\ result.attempts = 1
  /\ result.raised = "TimeoutError"

\* C24: a request to /health never raises; it answers healthy exactly when a
\* pool was there or could be created and the probe succeeded, unhealthy
\* otherwise; after a failed creation the manager has no pool and the next
\* request attempts the creation again.
C24_HealthNeverRaises ==
  (args # <<>> /\ args.call = "health_check") =>
    LET before == <<args.pool, result[1].pool>>
    IN /\ \A i \in 1..2 :
            LET established == before[i] # None \/ args.outcomes[i].create = ""
            IN /\ ~result[i].raised
               /\ result[i].status \in {"healthy", "unhealthy"}
               /\ result[i].status = "healthy" <=>
                    (established /\ args.outcomes[i].probe = "")
               /\ ~established => result[i].pool = None
       /\ (args.pool = None /\ args.outcomes[1].create # "") =>
            (result[1].pool = None /\ result[2].created)

\* The first request found no pool and could not create one; the second
\* created it and answered healthy.
C24_Witness ==
  /\ args # <<>>
  /\ args.call = "health_check"
  /\ args.pool = None
  /\ args.outcomes[1].create # ""
  /\ result[1].status = "unhealthy"
  /\ result[2].created
  /\ result[2].status = "healthy"

\* C25: update_appointment returns None only when no appointment has the
\* given id: a finished call on an appointment that existed when it began
\* returned the record.
C25_UpdateReturnsRecord ==
  \A c \in Callers :
    (calls[c].pc = "done" /\ calls[c].op = "update" /\ calls[c].existed) => calls[c].ret

\* C26: a POST /users for a Firebase UID that an active user has is answered
\* 409 and inserts no row; and a request made on a table with at most one
\* active user per UID leaves at most one active user per UID.
C26_DuplicateUidConflict ==
  (args # <<>> /\ args.call = "create_user") =>
    LET active(tbl, uid) == {r \in tbl : r["firebase_uid"] = uid /\ r["is_active"] = 1}
    IN /\ active(args.table, args.uid) # {} =>
            (result.status = 409 /\ result.table = args.table)
       /\ (\A u \in {"uid1", "uid2"} : Cardinality(active(args.table, u)) <= 1) =>
            (\A u \in {"uid1", "uid2"} : Cardinality(active(result.table, u)) <= 1)

\* C27: a batch that insert stores record by record without a failure is
\* stored by insert_many as well, and as the same rows.
C27_InsertManyAsInserts ==
  (args # <<>> /\ args.call = "insert_many" /\ result.each.failedAt = 0) =>
    (~result.many.raised /\ result.many.table = result.each.table)

\* C28: the frames of a streamed operation are typing(true), stream_start,
\* the chunks, stream_end, typing(false) in this order; whatever the
\* outcome, a typing(true) is followed by a typing(false) and a
\* stream_start by a stream_end.
C28_StreamFramesClosed ==
  (args # <<>> /\ args.call = "stream" /\ args.hasService /\ args.stream) =>
    /\ ~args.failed =>
         result = <<"typing(true)", "stream_start">>
                    \o [i \in 1..args.chunks |-> "stream_chunk"]
                    \o <<"stream_end", "typing(false)">>
    /\ \A i \in 1..Len(result) :
         /\ result[i] = "typing(true)" =>
              \E j \in (i + 1)..Len(result) : result[j] = "typing(false)"
         /\ result[i] = "stream_start" =>
              \E j \in (i + 1)..Len(result) : result[j] = "stream_end"

\* C29: after any sequence of registry operations every user in
\* user_sessions maps to a session of active_connections, and every session
\* with a message queue is in active_connections.
C29_RegistryConsistent ==
  (args # <<>> /\ args.call = "registry") =>
    /\ \A q \in result.user_sessions : q[2] \in result.active_connections
    /\ result.message_queue \subseteq result.active_connections

\* C30: under every interleaving of the callers each kind of agent is
\* constructed at most once, a caller that returns holds the
\* orchestrator's agent of the kind it asked for, and an agent once set is
\* never replaced.
C30_AgentBuiltOnce ==
  [][ /\ \A k \in {"chat", "record"} :
           /\ built'[k] <= 1
           /\ agent[k] # None => agent'[k] = agent[k]
      /\ \A t \in 1..NCallers :
           ens'[t].pc = "returned" =>
             (ens'[t].got # None /\ ens'[t].got = agent'[ens'[t].kind]) ]_vars

\* Two callers found no chat agent; one has constructed it and returned,
\* the other is still on its way to the lock.
C30_Witness ==
  \E t, u \in 1..NCallers :
    /\ ens[t].pc = "locking" /\ ens[t].kind = "chat"
    /\ ens[u].pc = "returned" /\ ens[u].kind = "chat"
    /\ ens[u].got = agent["chat"]
    /\ built["chat"] = 1

====
